---- MODULE Spec2Model ----
(***************************************************************************)
(* Model of converter.c: the Roman numeral converter.                      *)
(*                                                                         *)
(* A C string is a sequence of one-character strings (the terminating NUL  *)
(* is the end of the sequence); C index i is position i + 1 here.          *)
(*                                                                         *)
(*   SpecValid : validate_roman and regex_roman applied to candidates      *)
(*   SpecConv  : int_converter, validate_roman, roman_converter on 1..3999 *)
(*   Spec      : main, validate_input, roman_to_int, int_to_roman          *)
(***************************************************************************)
EXTENDS Integers, Sequences, FiniteSets, TLC

\* ------------------------------------------------------------------------
\* Program constants (#define)
\* ------------------------------------------------------------------------
MAX_ROMAN_LENGTH == 20
MAX_INT_LENGTH == 10
MAIN_BUFFER_LENGTH == 10
ROMAN_MAX == 3999
ROMAN_MIN == 1

EXIT_PROGRAM == -1
EXIT_OK == 0
EXIT_INPUT_ERR == 1
EXIT_EMPTY_ERR == 2
EXIT_MALLOC_ERR == 3
EXIT_INVALID_INPUT == 4
EXIT_INVALID_NUMERAL == 5

\* ------------------------------------------------------------------------
\* Bounds of the model
\* ------------------------------------------------------------------------
\* every string of at most MaxLen characters is a candidate of SpecValid
MaxLen == 4
\* input lines of Spec have at most MaxLine characters before the newline
MaxLine == 3
\* conversion calls counted per menu selection in Spec
MaxCalls == 3

\* ------------------------------------------------------------------------
\* Characters
\* ------------------------------------------------------------------------
RomanSymbols == {"I", "V", "X", "L", "C", "D", "M"}

\* a letter that is no Roman symbol stands for every other character
OtherChar == "A"

\* all sequences over S of length 0..n
RECURSIVE StringsUpTo(_, _)
StringsUpTo(S, n) ==
    IF n = 0 THEN {<<>>}
    ELSE LET shorter == StringsUpTo(S, n - 1)
         IN  shorter \cup {Append(s, c) : s \in shorter, c \in S}

\* ------------------------------------------------------------------------
\* roman_value, roman_converter
\* ------------------------------------------------------------------------
roman_value(c) ==
    CASE c = "I" -> 1
      [] c = "V" -> 5
      [] c = "X" -> 10
      [] c = "L" -> 50
      [] c = "C" -> 100
      [] c = "D" -> 500
      [] c = "M" -> 1000
      [] OTHER -> 0

\* the loop of roman_converter from position i with the running total
RECURSIVE roman_converter_loop(_, _, _)
roman_converter_loop(roman, i, total) ==
    IF i > Len(roman) THEN total
    ELSE LET current_value == roman_value(roman[i])
             next_value == IF i + 1 <= Len(roman)
                           THEN roman_value(roman[i + 1]) ELSE 0
         IN  IF current_value < next_value
             THEN roman_converter_loop(roman, i + 1, total - current_value)
             ELSE roman_converter_loop(roman, i + 1, total + current_value)

RECURSIVE roman_converter_add(_)
roman_converter_add(roman) ==
    IF roman = <<>> THEN 0
    ELSE roman_value(Head(roman)) + roman_converter_add(Tail(roman))

roman_converter(roman) == roman_converter_loop(roman, 1, 0)

\* ------------------------------------------------------------------------
\* int_converter
\* ------------------------------------------------------------------------
values == <<1000, 900, 500, 400, 100, 90, 50, 40, 10, 9, 5, 4, 1>>

symbols_nosub == << <<"M">>, <<"D", "C", "C", "C", "C">>, <<"D">>,
                    <<"C", "C", "C", "C">>, <<"C">>,
                    <<"L", "X", "X", "X", "X">>, <<"L">>,
                    <<"X", "X", "X", "X">>, <<"X">>,
                    <<"V", "I", "I", "I", "I">>, <<"V">>,
                    <<"I", "I", "I", "I">>, <<"I">> >>

symbols == << <<"M">>, <<"C", "M">>, <<"D">>, <<"C", "D">>, <<"C">>,
              <<"X", "C">>, <<"L">>, <<"X", "L">>, <<"X">>, <<"I", "X">>,
              <<"V">>, <<"I", "V">>, <<"I">> >>

\* the for/while loops of int_converter: table index i, remaining num and
\* the string built so far; the result keeps the remaining amount
RECURSIVE int_converter_loop(_, _, _)
int_converter_loop(num, i, roman) ==
    IF num > 0 /\ i <= Len(values)
    THEN IF num >= values[i]
         THEN int_converter_loop(num - values[i], i, roman \o symbols[i])
         ELSE int_converter_loop(num, i + 1, roman)
    ELSE [roman |-> roman, num |-> num]

int_converter(num) == int_converter_loop(num, 1, <<>>)

\* ------------------------------------------------------------------------
\* validate_roman and its helpers
\* ------------------------------------------------------------------------
is_valid_subtractive_any(prev, curr) == prev < curr

is_valid_subtractive(prev, curr) ==
    \/ (prev = 1 /\ (curr = 5 \/ curr = 10))
    \/ (prev = 10 /\ (curr = 50 \/ curr = 100))
    \/ (prev = 100 /\ (curr = 500 \/ curr = 1000))

can_subsequently_repeat_two(value, repeat_count) ==
    ~((value = 1 \/ value = 10 \/ value = 100 \/ value = 1000)
      /\ repeat_count > 2)

can_subsequently_repeat_four(value, repeat_count) ==
    ~((value = 1 \/ value = 10 \/ value = 100 \/ value = 1000)
      /\ repeat_count > 4)

can_subsequently_repeat(value, repeat_count) ==
    ~((value = 1 \/ value = 10 \/ value = 100 \/ value = 1000)
      /\ repeat_count > 3)

\* cannot_repeat returns ret and writes the three flags through pointers
cannot_repeat(value, v_repeat, l_repeat, d_repeat) ==
    LET same == [v_repeat |-> v_repeat, l_repeat |-> l_repeat,
                 d_repeat |-> d_repeat]
    IN  CASE value = 5 ->
               IF v_repeat THEN [ret |-> TRUE, flags |-> same]
               ELSE [ret |-> FALSE, flags |-> [same EXCEPT !.v_repeat = TRUE]]
          [] value = 50 ->
               IF l_repeat THEN [ret |-> TRUE, flags |-> same]
               ELSE [ret |-> FALSE, flags |-> [same EXCEPT !.l_repeat = TRUE]]
          [] value = 500 ->
               IF d_repeat THEN [ret |-> TRUE, flags |-> same]
               ELSE [ret |-> FALSE, flags |-> [same EXCEPT !.d_repeat = TRUE]]
          [] OTHER -> [ret |-> FALSE, flags |-> same]

\* the locals of validate_roman at loop entry
ScanInit ==
    [repeat |-> 1, max |-> 1000, last_subtractive_value |-> 0,
     last_subtractive |-> FALSE,
     v_repeat |-> FALSE, l_repeat |-> FALSE, d_repeat |-> FALSE]

ScanReject(st) == [reject |-> TRUE, st |-> st]
ScanContinue(st) == [reject |-> FALSE, st |-> st]

\* the end of one iteration: double subtraction and next-character checks
ScanTail(roman, i, st) ==
    LET current_value == roman_value(roman[i])
        prev_value == roman_value(roman[i - 1])
    IN  IF /\ i > 2
           /\ roman_value(roman[i - 2]) < current_value
           /\ prev_value < current_value
        THEN ScanReject(st)
        ELSE IF /\ st.last_subtractive
                /\ i + 1 <= Len(roman)
                /\ roman_value(roman[i + 1]) > st.last_subtractive_value
             THEN ScanReject(st)
             ELSE ScanContinue(st)

\* one iteration of the loop of validate_roman at position i
ScanIter(roman, i, st) ==
    LET current_value == roman_value(roman[i])
        cr == cannot_repeat(current_value, st.v_repeat, st.l_repeat,
                            st.d_repeat)
        st1 == [st EXCEPT !.v_repeat = cr.flags.v_repeat,
                          !.l_repeat = cr.flags.l_repeat,
                          !.d_repeat = cr.flags.d_repeat]
    IN  IF current_value = 0 THEN ScanReject(st)
        ELSE IF cr.ret THEN ScanReject(st1)
        ELSE IF i = 1 THEN ScanContinue(st1)
        ELSE
          LET prev_value == roman_value(roman[i - 1])
              st2 == [st1 EXCEPT !.repeat = IF current_value = prev_value
                                            THEN st1.repeat + 1 ELSE 1]
          IN  IF /\ current_value = prev_value
                 /\ ~can_subsequently_repeat(current_value, st2.repeat)
              THEN ScanReject(st2)
              ELSE IF prev_value < current_value
              THEN IF \/ ~is_valid_subtractive(prev_value, current_value)
                      \/ st2.last_subtractive
                      \/ current_value > st2.max
                      \/ prev_value = st2.last_subtractive_value
                   THEN ScanReject(st2)
                   ELSE ScanTail(roman, i,
                          [st2 EXCEPT !.last_subtractive_value = prev_value,
                                      !.max = current_value,
                                      !.last_subtractive = TRUE])
              ELSE IF \/ prev_value > st2.max
                      \/ current_value = st2.last_subtractive_value
                   THEN ScanReject(st2)
                   ELSE ScanTail(roman, i,
                          [st2 EXCEPT !.max = prev_value,
                                      !.last_subtractive = FALSE])

RECURSIVE ScanFrom(_, _, _)
ScanFrom(roman, i, st) ==
    IF i > Len(roman) THEN TRUE
    ELSE LET r == ScanIter(roman, i, st)
         IN  IF r.reject THEN FALSE ELSE ScanFrom(roman, i + 1, r.st)

validate_roman(roman) == ScanFrom(roman, 1, ScanInit)

\* ------------------------------------------------------------------------
\* regex_roman: ^M{0,3}(CM|CD|D?C{0,3})(XC|XL|L?X{0,3})(IX|IV|V?I{0,3})$
\* ------------------------------------------------------------------------
\* c{lo,hi}: the strings of lo..hi copies of c
Rep(c, lo, hi) == {[k \in 1..n |-> c] : n \in lo..hi}

\* concatenation of two languages
Cat(A, B) == {a \o b : a \in A, b \in B}

\* one parenthesised group (ten one | five one | five? one{0,3})
Group(one, five, ten) ==
    {<<one, ten>>, <<one, five>>} \cup Cat(Rep(five, 0, 1), Rep(one, 0, 3))

\* the pattern as the sequence of its four factors
pattern ==
    << Rep("M", 0, 3), Group("C", "D", "M"), Group("X", "L", "C"),
       Group("I", "V", "X") >>

IsPrefix(p, s) ==
    /\ Len(p) <= Len(s)
    /\ \A k \in 1..Len(p) : p[k] = s[k]

\* regexec: s from position 1 is matched by factors k.. of the pattern, the
\* anchors ^ and $ bind the match to the whole string
RECURSIVE regexec(_, _, _)
regexec(pat, k, s) ==
    IF k > Len(pat) THEN s = <<>>
    ELSE \E p \in pat[k] :
            /\ IsPrefix(p, s)
            /\ regexec(pat, k + 1, SubSeq(s, Len(p) + 1, Len(s)))

\* regcomp_ok: regcomp returned 0
regex_roman(roman, regcomp_ok) ==
    IF ~regcomp_ok THEN FALSE ELSE regexec(pattern, 1, roman)

\* ------------------------------------------------------------------------
\* <ctype.h>, strtol and fgets over the characters of the model
\* ------------------------------------------------------------------------
UPPER == <<"A", "C", "D", "I", "L", "M", "Q", "V", "X">>
LOWER == <<"a", "c", "d", "i", "l", "m", "q", "v", "x">>
DIGITS == <<"0", "1", "2", "3", "4", "5", "6", "7", "8", "9">>

isalpha(c) == \E k \in 1..Len(UPPER) : c = UPPER[k] \/ c = LOWER[k]

toupper(c) ==
    IF \E k \in 1..Len(LOWER) : c = LOWER[k]
    THEN UPPER[CHOOSE k \in 1..Len(LOWER) : c = LOWER[k]]
    ELSE c

isdigit(c) == \E k \in 1..Len(DIGITS) : c = DIGITS[k]

digit_value(c) == (CHOOSE k \in 1..Len(DIGITS) : c = DIGITS[k]) - 1

isspace(c) == c = " " \/ c = "\n"

\* number of leading characters of s that satisfy the test
RECURSIVE SpanSpaces(_)
SpanSpaces(s) ==
    IF s # <<>> /\ isspace(Head(s)) THEN 1 + SpanSpaces(Tail(s)) ELSE 0

RECURSIVE SpanDigits(_)
SpanDigits(s) ==
    IF s # <<>> /\ isdigit(Head(s)) THEN 1 + SpanDigits(Tail(s)) ELSE 0

\* value of a string of decimal digits, most significant first
RECURSIVE digits_value(_, _)
digits_value(s, acc) ==
    IF s = <<>> THEN acc
    ELSE digits_value(Tail(s), 10 * acc + digit_value(Head(s)))

\* strtol(input, &ptr, 10): white space, an optional sign, digits.  rest is
\* the string at ptr; without a digit nothing is converted and ptr = input.
\* A buffer of MAX_INT_LENGTH bytes holds at most 8 digits, so the value
\* fits a long and errno stays 0.
strtol(input) ==
    LET sp == SpanSpaces(input)
        s1 == SubSeq(input, sp + 1, Len(input))
        signed == s1 # <<>> /\ (Head(s1) = "-" \/ Head(s1) = "+")
        negative == s1 # <<>> /\ Head(s1) = "-"
        s2 == IF signed THEN Tail(s1) ELSE s1
        nd == SpanDigits(s2)
        magnitude == digits_value(SubSeq(s2, 1, nd), 0)
    IN  IF nd = 0 THEN [num |-> 0, rest |-> input]
        ELSE [num |-> IF negative THEN 0 - magnitude ELSE magnitude,
              rest |-> SubSeq(s2, nd + 1, Len(s2))]

\* index of the first "\n" of s, Len(s) + 1 when there is none
RECURSIVE strcspn_nl(_)
strcspn_nl(s) ==
    IF s = <<>> \/ Head(s) = "\n" THEN 1 ELSE 1 + strcspn_nl(Tail(s))

has_newline(s) == \E k \in 1..Len(s) : s[k] = "\n"

\* fgets(buf, size, stdin) on a pending line: at most size - 1 characters,
\* stopping after the newline
fgets(line, size) ==
    LET upto == IF has_newline(line) THEN strcspn_nl(line) ELSE Len(line)
    IN  SubSeq(line, 1, IF upto < size - 1 THEN upto ELSE size - 1)

\* ------------------------------------------------------------------------
\* validate_input, input_overflow_check
\* ------------------------------------------------------------------------
input_overflow_check(input) == ~has_newline(input)

\* the status returned and the buffer as validate_input leaves it
validate_input(input) ==
    LET stripped == SubSeq(input, 1, strcspn_nl(input) - 1)
    IN  IF input_overflow_check(input)
        THEN [status |-> EXIT_INVALID_INPUT, input |-> input]
        ELSE IF stripped = <<>>
        THEN [status |-> EXIT_EMPTY_ERR, input |-> stripped]
        ELSE IF toupper(stripped[1]) = "Q" /\ Len(stripped) = 1
        THEN [status |-> EXIT_PROGRAM, input |-> stripped]
        ELSE [status |-> EXIT_OK, input |-> stripped]

\* ------------------------------------------------------------------------
\* Pieces of roman_to_int, int_to_roman and main
\* ------------------------------------------------------------------------
\* the upper-casing loop of roman_to_int: the buffer when the loop stops and
\* whether it stopped on a character that is not alphabetic
RECURSIVE upper_loop(_, _)
upper_loop(s, i) ==
    IF i > Len(s) THEN [roman |-> s, bad |-> FALSE]
    ELSE IF ~isalpha(s[i]) THEN [roman |-> s, bad |-> TRUE]
    ELSE upper_loop([s EXCEPT ![i] = toupper(s[i])], i + 1)

selected_validator_none(s, regex_flag, regcomp_ok) == TRUE

\* the validator roman_to_int applies (REGEX_AVAILABLE is 1)
selected_validator(s, regex_flag, regcomp_ok) ==
    IF regex_flag THEN regex_roman(s, regcomp_ok) ELSE validate_roman(s)

out_of_range_offbyone(n) == n > ROMAN_MAX + 1 \/ n < ROMAN_MIN - 1

\* the range test of int_to_roman
out_of_range(n) == n > ROMAN_MAX \/ n < ROMAN_MIN

do_while_cond_or(tm, st) == ~tm \/ st # EXIT_PROGRAM

\* the condition of the two do-while loops of main
do_while_cond(tm, st) == ~tm /\ st # EXIT_PROGRAM

\* ------------------------------------------------------------------------
\* State
\* ------------------------------------------------------------------------
VARIABLES
    \* SpecValid: one candidate string and what the two validators return
    cand,           \* the candidate string
    vpc,            \* "input", "checked"; "off" outside SpecValid
    scan_ok,        \* validate_roman(cand)
    regex_ok,       \* regex_roman(cand)
    compiled,       \* regcomp succeeded in that call
    \* SpecConv: one integer taken through converter, validator, evaluator
    n,              \* the integer
    cpc,            \* "start", "converted", "validated", "evaluated"; "off"
    conv,           \* what int_converter left: the string, the remaining num
    conv_valid,     \* validate_roman of the string
    conv_value,     \* roman_converter of the string
    \* Spec: the program
    test_mode,      \* main: -test was given
    use_regex,      \* global: -regex was given
    pc,             \* position of the program; "off" outside Spec
    stdin_eof,      \* stdin is at end of input
    buffer,         \* main: buffer
    roman_in,       \* roman_to_int: roman
    input,          \* int_to_roman: input
    validation_status, \* validation_status of the running function, once set
    status,         \* main: status
    main_return,    \* the value main returned, as a sequence of 0 or 1 values
    calls,          \* conversion calls since the last menu selection
    read_failed,    \* the last fgets returned NULL
    uppercased,     \* roman_to_int finished its upper-casing loop
    validated,      \* roman_to_int: the selected validator returned true
    converted,      \* roman_to_int called roman_converter
    stdout_int,     \* what roman_to_int printed, 0 or 1 values
    parsed,         \* int_to_roman: strtol consumed the whole input
    num,            \* int_to_roman: num
    conv_called,    \* int_to_roman called int_converter
    stdout_roman    \* what int_to_roman printed, 0 or 1 strings

validVars == <<cand, vpc, scan_ok, regex_ok, compiled>>
convVars == <<n, cpc, conv, conv_valid, conv_value>>
progVars == <<test_mode, use_regex, pc, stdin_eof, buffer, roman_in, input,
              validation_status, status, main_return, calls, read_failed,
              uppercased, validated, converted, stdout_int, parsed, num,
              conv_called, stdout_roman>>
vars == <<validVars, convVars, progVars>>

ValidOff ==
    /\ cand = <<>> /\ vpc = "off" /\ scan_ok = FALSE /\ regex_ok = FALSE
    /\ compiled = FALSE

ConvOff ==
    /\ n = 0 /\ cpc = "off" /\ conv = [roman |-> <<>>, num |-> 0]
    /\ conv_valid = FALSE /\ conv_value = 0

\* the locals of a conversion call before the call
CallLocals ==
    /\ roman_in = <<>> /\ input = <<>> /\ validation_status = <<>>
    /\ uppercased = FALSE /\ validated = FALSE /\ converted = FALSE
    /\ stdout_int = <<>> /\ parsed = FALSE /\ num = 0
    /\ conv_called = FALSE /\ stdout_roman = <<>>

ProgOff ==
    /\ test_mode = FALSE /\ use_regex = FALSE /\ pc = "off"
    /\ stdin_eof = FALSE /\ buffer = <<>> /\ status = EXIT_OK
    /\ main_return = <<>> /\ calls = 0 /\ read_failed = FALSE
    /\ CallLocals

\* ------------------------------------------------------------------------
\* SpecValid: the two validators on candidate strings
\* ------------------------------------------------------------------------
Candidates == StringsUpTo(RomanSymbols \cup {OtherChar}, MaxLen)

InitValid ==
    /\ cand \in Candidates
    /\ vpc = "input"
    /\ scan_ok = FALSE /\ regex_ok = FALSE /\ compiled = FALSE
    /\ ConvOff /\ ProgOff

\* both validators are applied to the candidate
Validate ==
    /\ vpc = "input"
    /\ \E regcomp_ok \in BOOLEAN :
          /\ compiled' = regcomp_ok
          /\ regex_ok' = regex_roman(cand, regcomp_ok)
    /\ scan_ok' = validate_roman(cand)
    /\ vpc' = "checked"
    /\ UNCHANGED <<cand, convVars, progVars>>

\* a candidate that a validator accepted is tried with one more character,
\* up to the longest string the buffer of roman_to_int can hand over
Extend ==
    /\ vpc = "checked"
    /\ scan_ok \/ regex_ok
    /\ Len(cand) < MAX_ROMAN_LENGTH - 2
    /\ \E c \in RomanSymbols \cup {OtherChar} : cand' = Append(cand, c)
    /\ vpc' = "input"
    /\ scan_ok' = FALSE /\ regex_ok' = FALSE /\ compiled' = FALSE
    /\ UNCHANGED <<convVars, progVars>>

NextValid == Validate \/ Extend

SpecValid == InitValid /\ [][NextValid]_vars

\* ------------------------------------------------------------------------
\* SpecConv: converter, validator and evaluator on every integer in range
\* ------------------------------------------------------------------------
InitConv ==
    /\ n \in ROMAN_MIN..ROMAN_MAX
    /\ cpc = "start"
    /\ conv = [roman |-> <<>>, num |-> n]
    /\ conv_valid = FALSE /\ conv_value = 0
    /\ ValidOff /\ ProgOff

Convert ==
    /\ cpc = "start"
    /\ conv' = int_converter(n)
    /\ cpc' = "converted"
    /\ UNCHANGED <<n, conv_valid, conv_value, validVars, progVars>>

ValidateConverted ==
    /\ cpc = "converted"
    /\ conv_valid' = validate_roman(conv.roman)
    /\ cpc' = "validated"
    /\ UNCHANGED <<n, conv, conv_value, validVars, progVars>>

Evaluate ==
    /\ cpc = "validated"
    /\ conv_value' = roman_converter(conv.roman)
    /\ cpc' = "evaluated"
    /\ UNCHANGED <<n, conv, conv_valid, validVars, progVars>>

NextConv == Convert \/ ValidateConverted \/ Evaluate

SpecConv == InitConv /\ [][NextConv]_vars

\* ------------------------------------------------------------------------
\* Spec: the program.  stdin is a stream of lines chosen as they are read.
\* ------------------------------------------------------------------------
MenuChars == {"1", "2", "9", "Q"}
RomanChars == {"I", "V", "x", "A", "q", "1"}
IntChars == {"0", "1", "-", "+", " ", "a", "Q"}

RECURSIVE decimal(_)
decimal(k) ==
    IF k < 10 THEN <<DIGITS[k + 1]>>
    ELSE Append(decimal(k \div 10), DIGITS[(k % 10) + 1])

\* the lines stdin can deliver at a prompt whose buffer has size bytes:
\* short texts, the longest text that fits and the shortest that does not,
\* each ended by a newline or, when not empty, by the end of input
Lines(chars, extra, fill, size) ==
    LET texts == StringsUpTo(chars, MaxLine) \cup extra
                 \cup {[k \in 1..(size - 2) |-> fill],
                       [k \in 1..(size - 1) |-> fill]}
    IN  {Append(t, "\n") : t \in texts} \cup (texts \ {<<>>})

MenuLines == Lines(MenuChars, {}, "1", MAIN_BUFFER_LENGTH)

RomanLines ==
    Lines(RomanChars, {<<"M", "C", "M", "X", "C", "I", "V">>}, "I",
          MAX_ROMAN_LENGTH)

IntLines ==
    Lines(IntChars,
          {decimal(k) : k \in {ROMAN_MIN - 1, ROMAN_MIN, ROMAN_MAX,
                               ROMAN_MAX + 1}},
          "1", MAX_INT_LENGTH)

Init ==
    /\ test_mode \in BOOLEAN
    /\ use_regex \in BOOLEAN
    /\ pc = "main"
    /\ stdin_eof = FALSE
    /\ buffer = <<>>
    /\ status = EXIT_OK
    /\ main_return = <<>>
    /\ calls = 0
    /\ read_failed = FALSE
    /\ CallLocals
    /\ ValidOff /\ ConvOff

\* the locals of a conversion call at its entry and after its return
FreshLocals ==
    /\ roman_in' = <<>> /\ input' = <<>> /\ validation_status' = <<>>
    /\ uppercased' = FALSE /\ validated' = FALSE /\ converted' = FALSE
    /\ stdout_int' = <<>> /\ parsed' = FALSE /\ num' = 0
    /\ conv_called' = FALSE /\ stdout_roman' = <<>>

callLocals == <<roman_in, input, validation_status, uppercased, validated,
                converted, stdout_int, parsed, num, conv_called,
                stdout_roman>>

\* main: fgets at the menu
MainRead ==
    /\ pc = "main"
    /\ \/ /\ stdin_eof' = TRUE
          /\ read_failed' = TRUE
          /\ main_return' = <<EXIT_INPUT_ERR>>
          /\ pc' = "done"
          /\ UNCHANGED buffer
       \/ /\ ~stdin_eof
          /\ \E line \in MenuLines :
                /\ buffer' = fgets(line, MAIN_BUFFER_LENGTH)
                /\ stdin_eof' = ~has_newline(line)
          /\ read_failed' = FALSE
          /\ pc' = "main_validate"
          /\ UNCHANGED main_return
    /\ UNCHANGED <<test_mode, use_regex, status, calls, callLocals,
                   validVars, convVars>>

\* main: validate_input and the selection
MainDispatch ==
    /\ pc = "main_validate"
    /\ LET v == validate_input(buffer)
       IN  /\ buffer' = v.input
           /\ IF v.status # EXIT_OK
              THEN /\ main_return' = <<v.status>>
                   /\ pc' = "done"
                   /\ UNCHANGED calls
              ELSE /\ UNCHANGED main_return
                   /\ calls' = 0
                   /\ pc' = IF v.input = <<"1">> THEN "rti_read"
                            ELSE IF v.input = <<"2">> THEN "itr_read"
                            ELSE "main"
    /\ UNCHANGED <<test_mode, use_regex, stdin_eof, status, read_failed,
                   callLocals, validVars, convVars>>

\* roman_to_int: entry and fgets
RtiRead ==
    /\ pc = "rti_read"
    /\ calls' = IF calls < MaxCalls THEN calls + 1 ELSE calls
    /\ \/ /\ stdin_eof' = TRUE
          /\ read_failed' = TRUE
          /\ status' = EXIT_INPUT_ERR
          /\ pc' = "rti_return"
          /\ FreshLocals
       \/ /\ ~stdin_eof
          /\ \E line \in RomanLines :
                /\ roman_in' = fgets(line, MAX_ROMAN_LENGTH)
                /\ stdin_eof' = ~has_newline(line)
          /\ read_failed' = FALSE
          /\ pc' = "rti_validate_input"
          /\ input' = <<>> /\ validation_status' = <<>>
          /\ uppercased' = FALSE /\ validated' = FALSE /\ converted' = FALSE
          /\ stdout_int' = <<>> /\ parsed' = FALSE /\ num' = 0
          /\ conv_called' = FALSE /\ stdout_roman' = <<>>
          /\ UNCHANGED status
    /\ UNCHANGED <<test_mode, use_regex, buffer, main_return,
                   validVars, convVars>>

\* roman_to_int: validate_input
RtiValidateInput ==
    /\ pc = "rti_validate_input"
    /\ LET v == validate_input(roman_in)
       IN  /\ roman_in' = v.input
           /\ validation_status' = <<v.status>>
           /\ IF v.status # EXIT_OK
              THEN status' = v.status /\ pc' = "rti_return"
              ELSE pc' = "rti_upper" /\ UNCHANGED status
    /\ UNCHANGED <<test_mode, use_regex, stdin_eof, buffer, input,
                   main_return, calls, read_failed, uppercased, validated,
                   converted, stdout_int, parsed, num, conv_called,
                   stdout_roman, validVars, convVars>>

\* roman_to_int: the upper-casing loop
RtiUpper ==
    /\ pc = "rti_upper"
    /\ LET u == upper_loop(roman_in, 1)
       IN  /\ roman_in' = u.roman
           /\ IF u.bad
              THEN /\ status' = EXIT_INVALID_INPUT
                   /\ pc' = "rti_return"
                   /\ UNCHANGED uppercased
              ELSE /\ uppercased' = TRUE
                   /\ pc' = "rti_validate"
                   /\ UNCHANGED status
    /\ UNCHANGED <<test_mode, use_regex, stdin_eof, buffer, input,
                   validation_status, main_return, calls, read_failed,
                   validated, converted, stdout_int, parsed, num,
                   conv_called, stdout_roman, validVars, convVars>>

\* roman_to_int: the selected validator
RtiValidate ==
    /\ pc = "rti_validate"
    /\ \E regcomp_ok \in BOOLEAN :
          IF selected_validator(roman_in, use_regex, regcomp_ok)
          THEN /\ validated' = TRUE
               /\ pc' = "rti_convert"
               /\ UNCHANGED status
          ELSE /\ status' = EXIT_INVALID_NUMERAL
               /\ pc' = "rti_return"
               /\ UNCHANGED validated
    /\ UNCHANGED <<test_mode, use_regex, stdin_eof, buffer, roman_in, input,
                   validation_status, main_return, calls, read_failed,
                   uppercased, converted, stdout_int, parsed, num,
                   conv_called, stdout_roman, validVars, convVars>>

\* roman_to_int: roman_converter and the printf of its value
RtiConvert ==
    /\ pc = "rti_convert"
    /\ converted' = TRUE
    /\ stdout_int' = <<roman_converter(roman_in)>>
    /\ status' = EXIT_OK
    /\ pc' = "rti_return"
    /\ UNCHANGED <<test_mode, use_regex, stdin_eof, buffer, roman_in, input,
                   validation_status, main_return, calls, read_failed,
                   uppercased, validated, parsed, num, conv_called,
                   stdout_roman, validVars, convVars>>

\* main: the end of the do-while body around roman_to_int
RtiReturn ==
    /\ pc = "rti_return"
    /\ IF do_while_cond(test_mode, status)
       THEN pc' = "rti_read" /\ UNCHANGED main_return
       ELSE IF test_mode
       THEN pc' = "done" /\ main_return' = <<status>>
       ELSE pc' = "main" /\ UNCHANGED main_return
    /\ FreshLocals
    /\ UNCHANGED <<test_mode, use_regex, stdin_eof, buffer, status, calls,
                   read_failed, validVars, convVars>>

\* int_to_roman: entry and fgets
ItrRead ==
    /\ pc = "itr_read"
    /\ calls' = IF calls < MaxCalls THEN calls + 1 ELSE calls
    /\ \/ /\ stdin_eof' = TRUE
          /\ read_failed' = TRUE
          /\ status' = EXIT_INPUT_ERR
          /\ pc' = "itr_return"
          /\ FreshLocals
       \/ /\ ~stdin_eof
          /\ \E line \in IntLines :
                /\ input' = fgets(line, MAX_INT_LENGTH)
                /\ stdin_eof' = ~has_newline(line)
          /\ read_failed' = FALSE
          /\ pc' = "itr_validate_input"
          /\ roman_in' = <<>> /\ validation_status' = <<>>
          /\ uppercased' = FALSE /\ validated' = FALSE /\ converted' = FALSE
          /\ stdout_int' = <<>> /\ parsed' = FALSE /\ num' = 0
          /\ conv_called' = FALSE /\ stdout_roman' = <<>>
          /\ UNCHANGED status
    /\ UNCHANGED <<test_mode, use_regex, buffer, main_return,
                   validVars, convVars>>

\* int_to_roman: validate_input
ItrValidateInput ==
    /\ pc = "itr_validate_input"
    /\ LET v == validate_input(input)
       IN  /\ input' = v.input
           /\ validation_status' = <<v.status>>
           /\ IF v.status # EXIT_OK
              THEN status' = v.status /\ pc' = "itr_return"
              ELSE pc' = "itr_parse" /\ UNCHANGED status
    /\ UNCHANGED <<test_mode, use_regex, stdin_eof, buffer, roman_in,
                   main_return, calls, read_failed, uppercased, validated,
                   converted, stdout_int, parsed, num, conv_called,
                   stdout_roman, validVars, convVars>>

\* int_to_roman: strtol, the test of *ptr and the range test
ItrParse ==
    /\ pc = "itr_parse"
    /\ LET r == strtol(input)
       IN  /\ num' = r.num
           /\ IF r.rest # <<>>
              THEN /\ status' = EXIT_INVALID_INPUT
                   /\ pc' = "itr_return"
                   /\ UNCHANGED parsed
              ELSE /\ parsed' = TRUE
                   /\ IF out_of_range(r.num)
                      THEN status' = EXIT_INVALID_NUMERAL /\ pc' = "itr_return"
                      ELSE pc' = "itr_convert" /\ UNCHANGED status
    /\ UNCHANGED <<test_mode, use_regex, stdin_eof, buffer, roman_in, input,
                   validation_status, main_return, calls, read_failed,
                   uppercased, validated, converted, stdout_int,
                   conv_called, stdout_roman, validVars, convVars>>

\* int_to_roman: int_converter (its malloc may fail) and the printf
ItrConvert ==
    /\ pc = "itr_convert"
    /\ conv_called' = TRUE
    /\ \E malloc_ok \in BOOLEAN :
          IF malloc_ok
          THEN /\ stdout_roman' = <<int_converter(num).roman>>
               /\ status' = EXIT_OK
          ELSE /\ status' = EXIT_MALLOC_ERR
               /\ UNCHANGED stdout_roman
    /\ pc' = "itr_return"
    /\ UNCHANGED <<test_mode, use_regex, stdin_eof, buffer, roman_in, input,
                   validation_status, main_return, calls, read_failed,
                   uppercased, validated, converted, stdout_int, parsed,
                   num, validVars, convVars>>

\* main: the end of the do-while body around int_to_roman
ItrReturn ==
    /\ pc = "itr_return"
    /\ IF do_while_cond(test_mode, status)
       THEN pc' = "itr_read" /\ UNCHANGED main_return
       ELSE IF test_mode
       THEN pc' = "done" /\ main_return' = <<status>>
       ELSE pc' = "main" /\ UNCHANGED main_return
    /\ FreshLocals
    /\ UNCHANGED <<test_mode, use_regex, stdin_eof, buffer, status, calls,
                   read_failed, validVars, convVars>>

Next ==
    \/ MainRead \/ MainDispatch
    \/ RtiRead \/ RtiValidateInput \/ RtiUpper \/ RtiValidate
    \/ RtiConvert \/ RtiReturn
    \/ ItrRead \/ ItrValidateInput \/ ItrParse \/ ItrConvert \/ ItrReturn

Spec == Init /\ [][Next]_vars

\* ------------------------------------------------------------------------
\* Properties
\* ------------------------------------------------------------------------
InRange(k) == ROMAN_MIN <= k /\ k <= ROMAN_MAX

\* s is int_converter(k) for some k in ROMAN_MIN..ROMAN_MAX: the only k that
\* can do is the value roman_converter gives s
IsCanonical(s) ==
    LET k == roman_converter(s)
    IN  InRange(k) /\ int_converter(k).roman = s

OverSymbols(s) == \A k \in 1..Len(s) : s[k] \in RomanSymbols

\* C1: on every string over {I,V,X,L,C,D,M}, validate_roman and regex_roman
\* (its pattern compiled) return the same boolean.
C1_ValidatorAgreement ==
    (vpc = "checked" /\ compiled /\ OverSymbols(cand))
        => (scan_ok = regex_ok)

C1_Witness ==
    /\ vpc = "checked" /\ compiled
    /\ Len(cand) = 15 /\ OverSymbols(cand)
    /\ scan_ok /\ regex_ok

KnownInvalid ==
    { <<"I", "I", "I", "I">>, <<"V", "V">>, <<"I", "X", "L">>,
      <<"M", "M", "M", "M">>, <<"I", "L">>, <<"C", "C", "C", "M">> }

\* C2: a non-empty string that validate_roman accepts is int_converter(k)
\* for some k in 1..3999; a string with a character outside the alphabet
\* and each of IIII, VV, IXL, MMMM, IL, CCCM is rejected.
C2_AcceptsOnlyCanonical ==
    vpc = "checked" =>
        /\ (cand # <<>> /\ scan_ok) => IsCanonical(cand)
        /\ ~OverSymbols(cand) => ~scan_ok
        /\ cand \in KnownInvalid => ~scan_ok

C2_Witness ==
    /\ vpc = "checked" /\ scan_ok
    /\ cand = <<"M", "C", "M", "X", "C", "I", "V">>

\* C3: validate_roman accepts int_converter(n) for every n in 1..3999.
C3_ValidatorSoundness ==
    cpc \in {"validated", "evaluated"} => conv_valid

C3_Witness ==
    /\ cpc = "validated" /\ n = ROMAN_MAX /\ conv_valid
    /\ conv.roman = <<"M", "M", "M", "C", "M", "X", "C", "I", "X">>

\* C4: roman_converter(int_converter(n)) = n for every n in 1..3999.
C4_RoundTrip ==
    cpc = "evaluated" => conv_value = n

C4_Witness ==
    /\ cpc = "evaluated" /\ n = 1994 /\ conv_value = 1994
    /\ conv.roman = <<"M", "C", "M", "X", "C", "I", "V">>

IsUpperAlpha(s) == \A k \in 1..Len(s) : isalpha(s[k]) /\ toupper(s[k]) = s[k]

\* what a call of roman_to_int has established when roman_converter runs
C5_Established ==
    /\ validation_status = <<EXIT_OK>>
    /\ roman_in # <<>> /\ roman_in # <<"Q">> /\ ~has_newline(roman_in)
    /\ Len(roman_in) <= MAX_ROMAN_LENGTH - 2
    /\ uppercased /\ IsUpperAlpha(roman_in)
    /\ validated
    /\ IF use_regex THEN regexec(pattern, 1, roman_in)
       ELSE validate_roman(roman_in)

C5_State ==
    /\ (pc = "rti_convert" \/ converted) => C5_Established
    /\ stdout_int # <<>> =>
          converted /\ status = EXIT_OK
          /\ stdout_int = <<roman_converter(roman_in)>>
    /\ (pc = "rti_return" /\ status # EXIT_OK) =>
          ~converted /\ stdout_int = <<>>
    /\ (pc = "rti_return" /\ status = EXIT_OK) => converted

C5_Order ==
    /\ (uppercased' /\ ~uppercased) => validation_status = <<EXIT_OK>>
    /\ (validated' /\ ~validated) => uppercased
    /\ (converted' /\ ~converted) => validated

\* C5: roman_to_int calls roman_converter and prints with EXIT_OK only after
\* validate_input returned EXIT_OK, then every character was alphabetic and
\* upper-cased, then the selected validator returned true; after any earlier
\* failure it returns another status without calling roman_converter.
C5_EvaluatorOnlyAfterValidation ==
    [](C5_State) /\ [][C5_Order]_vars

C5_Witness ==
    /\ pc = "rti_return" /\ converted /\ status = EXIT_OK /\ use_regex
    /\ roman_in = <<"M", "C", "M", "X", "C", "I", "V">>
    /\ stdout_int = <<1994>>

\* C6: int_to_roman calls int_converter exactly for the parsed integers in
\* 1..3999; outside it returns EXIT_INVALID_NUMERAL and prints no numeral.
C6_RangeCheckedBeforeConversion ==
    /\ (pc = "itr_convert" \/ conv_called) =>
          parsed /\ InRange(num) /\ strtol(input).num = num
    /\ (pc = "itr_return" /\ parsed) => (conv_called <=> InRange(num))
    /\ (pc = "itr_return" /\ parsed /\ ~InRange(num)) =>
          status = EXIT_INVALID_NUMERAL /\ stdout_roman = <<>>
    /\ ~parsed => ~conv_called /\ stdout_roman = <<>>

C6_Witness ==
    /\ pc = "itr_return" /\ parsed /\ num = ROMAN_MAX /\ conv_called
    /\ stdout_roman = << <<"M", "M", "M", "C", "M", "X", "C", "I", "X">> >>

\* C7: validate_roman rejects the empty string.
C7_EmptyRejected ==
    (vpc = "checked" /\ cand = <<>>) => ~scan_ok

\* C8: after a failed read at any prompt, in either mode, the program
\* terminates with EXIT_INPUT_ERR instead of reading again.
C8_ReadFailureTerminates ==
    (read_failed /\ pc \notin {"rti_return", "itr_return"}) =>
        pc = "done" /\ main_return = <<EXIT_INPUT_ERR>>

RtiPcs == {"rti_read", "rti_validate_input", "rti_upper", "rti_validate",
           "rti_convert", "rti_return"}
ItrPcs == {"itr_read", "itr_validate_input", "itr_parse", "itr_convert",
           "itr_return"}

C9_Step ==
    /\ (pc' = "rti_read" /\ pc # "rti_read") =>
          \/ pc = "main_validate" /\ validate_input(buffer).input = <<"1">>
          \/ pc = "rti_return" /\ ~test_mode /\ status # EXIT_PROGRAM
    /\ (pc' = "itr_read" /\ pc # "itr_read") =>
          \/ pc = "main_validate" /\ validate_input(buffer).input = <<"2">>
          \/ pc = "itr_return" /\ ~test_mode /\ status # EXIT_PROGRAM
    /\ (test_mode /\ pc \in {"rti_return", "itr_return"}) =>
          pc' = "done" /\ main_return' = <<status>>
    /\ (test_mode /\ pc \in RtiPcs \cup ItrPcs) =>
          pc' \notin {"main", "main_validate"}
    /\ (~test_mode /\ pc = "rti_return") =>
          pc' = IF status = EXIT_PROGRAM THEN "main" ELSE "rti_read"
    /\ (~test_mode /\ pc = "itr_return") =>
          pc' = IF status = EXIT_PROGRAM THEN "main" ELSE "itr_read"

C9_Count ==
    /\ (test_mode /\ pc \in RtiPcs \cup ItrPcs) =>
          calls = IF pc \in {"rti_read", "itr_read"} THEN 0 ELSE 1
    /\ (test_mode /\ pc = "done") => calls <= 1

\* C9: in test mode a selection of 1 or 2 makes exactly one call of
\* roman_to_int or int_to_roman and main returns that call's status without
\* going back to the menu; in interactive mode the call is repeated until
\* it returns EXIT_PROGRAM and then the menu is shown again.
C9_ModeLoops ==
    [](C9_Count) /\ [][C9_Step]_vars

C9_Witness ==
    /\ test_mode /\ pc = "done" /\ calls = 1
    /\ status = EXIT_INVALID_NUMERAL
    /\ main_return = <<EXIT_INVALID_NUMERAL>>

\* C10: int_converter(n) has at most 15 symbols for n in 1..3999, fits the
\* MAX_ROMAN_LENGTH bytes with its terminator, and leaves num at 0.
C10_LengthBound ==
    cpc \in {"converted", "validated", "evaluated"} =>
        /\ Len(conv.roman) <= 15
        /\ Len(conv.roman) + 1 <= MAX_ROMAN_LENGTH
        /\ conv.num = 0

C10_Witness ==
    /\ cpc = "converted" /\ n = 3888
    /\ Len(conv.roman) = 15 /\ conv.num = 0

====
